---------------------------- MODULE Spec2Model ----------------------------
(***************************************************************************)
(* Coverage service of src/main.py: the row parsers parse_demand_rows and  *)
(* parse_riders_rows, the timeline generator daterange, the predicate      *)
(* overlap and the request handler optimize.                               *)
(*                                                                         *)
(* Text is modelled by TLA+ strings and handled character by character.    *)
(* An instant (a Python datetime) is a record [t, tz]: t is the number of  *)
(* minutes since 2024-01-01T00:00 (UTC minutes for an aware datetime) and  *)
(* tz tells an aware datetime from a naive one.  Python refuses to order a *)
(* naive and an aware datetime (TypeError); it compares them unequal.      *)
(***************************************************************************)
EXTENDS Integers, Sequences, FiniteSets, TLC

(***************************************************************************)
(* State.                                                                  *)
(***************************************************************************)
VARIABLES
    entry,              \* the function the run calls: "optimize", "parse_demand_rows", "parse_riders_rows"
    pc,                 \* where the run is
    exc,                \* what ended the run: "" or the HTTPException / the exception raised
    city,               \* the city parameter
    start_date, end_date, interval_minutes,     \* the other form fields of optimize
    d_rows, r_rows,     \* the rows read from the two files
    idx,                \* position of `for row in rows`, from 1
    d_log, r_log,       \* how each iteration of the two row loops ended
    demand_map, riders, \* what the parsers build
    start_dt, end_dt,
    cur, times,         \* daterange's cur and out
    i,                  \* position of `for i in range(len(times))`, from 1
    series, total_unmet, total_surplus, summary

vars ==
    <<entry, pc, exc, city, start_date, end_date, interval_minutes, d_rows, r_rows, idx, d_log,
      r_log, demand_map, riders, start_dt, end_dt, cur, times, i, series, total_unmet,
      total_surplus, summary>>

(***************************************************************************)
(* Text helpers: str.strip, str.lower, str.replace, the `in` test.         *)
(***************************************************************************)
Char(s, p) == SubSeq(s, p, p)

IsSpace(c) == c = " "

\* s.strip(): from the first to the last character that is no white space
Strip(s) ==
    LET inked == {j \in 1..Len(s) : ~IsSpace(Char(s, j))}
    IN  IF inked = {} THEN SubSeq(s, 1, 0)
        ELSE SubSeq(s, CHOOSE j \in inked : \A m \in inked : j <= m,
                       CHOOSE j \in inked : \A m \in inked : m <= j)

UpperLetters == "ABCDEFGHIJKLMNOPQRSTUVWXYZ"

LowerLetters == "abcdefghijklmnopqrstuvwxyz"

\* the lower-case letter of each upper-case one
LowerOf ==
    [c \in {Char(UpperLetters, p) : p \in 1..Len(UpperLetters)} |->
        Char(LowerLetters, CHOOSE p \in 1..Len(UpperLetters) : Char(UpperLetters, p) = c)]

UpperChars == {Char(UpperLetters, p) : p \in 1..Len(UpperLetters)}

LowerChar(c) == IF c \in UpperChars THEN LowerOf[c] ELSE c

\* s.lower()
Lower(s) ==
    LET done[k \in 0..Len(s)] ==
            IF k = 0 THEN SubSeq(s, 1, 0) ELSE done[k - 1] \o LowerChar(Char(s, k))
    IN  done[Len(s)]

\* s.replace(c, r) for a single character c
Replace(s, c, r) ==
    LET done[k \in 0..Len(s)] ==
            IF k = 0 THEN SubSeq(s, 1, 0)
            ELSE done[k - 1] \o (IF Char(s, k) = c THEN r ELSE Char(s, k))
    IN  done[Len(s)]

Contains(s, c) == \E p \in 1..Len(s) : Char(s, p) = c

\* _norm: (s or "").strip().lower(); the key None of a csv row with surplus
\* cells is written NoneKey and normalises to "".
NoneKey == "<None>"

_norm(k) == IF k = NoneKey THEN "" ELSE Lower(Strip(k))

(***************************************************************************)
(* Numbers in text.                                                        *)
(***************************************************************************)
Digits == "0123456789"

DigitOf == [c \in {Char(Digits, p) : p \in 1..Len(Digits)} |->
                (CHOOSE p \in 1..Len(Digits) : Char(Digits, p) = c) - 1]

DigitChars == {Char(Digits, p) : p \in 1..Len(Digits)}

IsDigit(c) == c \in DigitChars

DigitVal(c) == DigitOf[c]

AllDigits(s) == Len(s) > 0 /\ \A p \in 1..Len(s) : IsDigit(Char(s, p))

\* the number a text of digits denotes
NatOf(s) ==
    LET done[k \in 0..Len(s)] == IF k = 0 THEN 0 ELSE done[k - 1] * 10 + DigitVal(Char(s, k))
    IN  done[Len(s)]

\* int(float(text)) for the decimal shapes [sign] digits [. digits] and
\* [sign] . digits: ok is FALSE where float or int raises (any other text of the
\* model's universe, "nan" and "inf" included); n is the value truncated towards 0.
IntOfFloatText(s) ==
    LET signed == Len(s) > 0 /\ (Char(s, 1) = "-" \/ Char(s, 1) = "+")
        body   == IF signed THEN SubSeq(s, 2, Len(s)) ELSE s
        hasDot == Contains(body, ".")
        dot    == IF hasDot THEN CHOOSE p \in 1..Len(body) : Char(body, p) = "." ELSE Len(body) + 1
        whole  == SubSeq(body, 1, dot - 1)
        frac   == SubSeq(body, dot + 1, Len(body))
        ok     == /\ Len(whole) + Len(frac) > 0
                  /\ (Len(whole) = 0 \/ AllDigits(whole))
                  /\ (Len(frac) = 0 \/ AllDigits(frac))
        mag    == NatOf(whole)
    IN  [ok |-> ok, n |-> IF ~ok THEN 0 ELSE IF signed /\ Char(s, 1) = "-" THEN 0 - mag ELSE mag]

(***************************************************************************)
(* Instants and datetime.fromisoformat.                                    *)
(***************************************************************************)
Instant(t, tz) == [t |-> t, tz |-> tz]

\* days since 1970-01-01 of a civil date
DaysFromCivil(y, m, d) ==
    LET yy  == IF m <= 2 THEN y - 1 ELSE y
        era == yy \div 400
        yoe == yy - era * 400
        mp  == IF m > 2 THEN m - 3 ELSE m + 9
        doy == (153 * mp + 2) \div 5 + d - 1
        doe == yoe * 365 + yoe \div 4 - yoe \div 100 + doy
    IN  era * 146097 + doe - 719468

EpochDays == DaysFromCivil(2024, 1, 1)

IsLeap(y) == (y % 4 = 0 /\ y % 100 # 0) \/ y % 400 = 0

DaysInMonth(y, m) ==
    IF m = 2 THEN (IF IsLeap(y) THEN 29 ELSE 28)
    ELSE IF m \in {4, 6, 9, 11} THEN 30 ELSE 31

IsoDateOk(s) ==
    /\ Len(s) = 10
    /\ AllDigits(SubSeq(s, 1, 4)) /\ Char(s, 5) = "-"
    /\ AllDigits(SubSeq(s, 6, 7)) /\ Char(s, 8) = "-"
    /\ AllDigits(SubSeq(s, 9, 10))
    /\ NatOf(SubSeq(s, 1, 4)) >= 1
    /\ NatOf(SubSeq(s, 6, 7)) \in 1..12
    /\ NatOf(SubSeq(s, 9, 10)) \in 1..DaysInMonth(NatOf(SubSeq(s, 1, 4)), NatOf(SubSeq(s, 6, 7)))

\* "HH:MM"
IsoClockOk(s, hmax) ==
    /\ Len(s) = 5
    /\ AllDigits(SubSeq(s, 1, 2)) /\ Char(s, 3) = ":" /\ AllDigits(SubSeq(s, 4, 5))
    /\ NatOf(SubSeq(s, 1, 2)) <= hmax
    /\ NatOf(SubSeq(s, 4, 5)) <= 59

ClockMinutes(s) == NatOf(SubSeq(s, 1, 2)) * 60 + NatOf(SubSeq(s, 4, 5))

\* datetime.fromisoformat on the minute-resolution shapes YYYY-MM-DD,
\* YYYY-MM-DD?HH:MM and YYYY-MM-DD?HH:MM(+|-)HH:MM (? is any one character);
\* ok is FALSE where it raises ValueError.
fromisoformat(s) ==
    LET dateOk == Len(s) >= 10 /\ IsoDateOk(SubSeq(s, 1, 10))
        days   == DaysFromCivil(NatOf(SubSeq(s, 1, 4)), NatOf(SubSeq(s, 6, 7)), NatOf(SubSeq(s, 9, 10)))
                    - EpochDays
        clock  == SubSeq(s, 12, 16)
        off    == SubSeq(s, 18, 22)
        sign   == Char(s, 17)
    IN  IF ~dateOk THEN [ok |-> FALSE, dt |-> Instant(0, FALSE)]
        ELSE IF Len(s) = 10 THEN [ok |-> TRUE, dt |-> Instant(days * 1440, FALSE)]
        ELSE IF Len(s) = 16 /\ IsoClockOk(clock, 23)
             THEN [ok |-> TRUE, dt |-> Instant(days * 1440 + ClockMinutes(clock), FALSE)]
        ELSE IF Len(s) = 22 /\ IsoClockOk(clock, 23) /\ sign \in {"+", "-"} /\ IsoClockOk(off, 23)
             THEN [ok |-> TRUE,
                   dt |-> Instant(days * 1440 + ClockMinutes(clock)
                                    - (IF sign = "+" THEN ClockMinutes(off) ELSE 0 - ClockMinutes(off)),
                                  TRUE)]
        ELSE [ok |-> FALSE, dt |-> Instant(0, FALSE)]

\* a < b and a <= b on datetimes raise TypeError between a naive and an aware one
Comparable(a, b) == a.tz = b.tz

\* cur + timedelta(minutes = m)
PlusMinutes(a, m) == Instant(a.t + m, a.tz)

(***************************************************************************)
(* Cell values: None, text, a number (n is ten times the value, so 2.7 is  *)
(* 27; a whole number is a Python int), a datetime (a spreadsheet's        *)
(* native date/time) and the list csv.DictReader stores under the key      *)
(* None for a row's surplus cells (s is its str()).                        *)
(***************************************************************************)
PyNone == [kind |-> "none", s |-> "", n |-> 0, tz |-> FALSE]

Str(s) == [kind |-> "str", s |-> s, n |-> 0, tz |-> FALSE]

Num(n10) == [kind |-> "num", s |-> "", n |-> n10, tz |-> FALSE]

Whole(n) == Num(n * 10)

Dt(t, tz) == [kind |-> "dt", s |-> "", n |-> t, tz |-> tz]

RestList(s) == [kind |-> "list", s |-> s, n |-> 0, tz |-> FALSE]

\* Python truthiness, which `or` tests
Truthy(v) ==
    CASE v.kind = "none" -> FALSE
      [] v.kind = "str"  -> v.s # ""
      [] v.kind = "num"  -> v.n # 0
      [] v.kind = "dt"   -> TRUE
      [] v.kind = "list" -> TRUE

\* a or b
Or(a, b) == IF Truthy(a) THEN a ELSE b

\* the decimal text of a natural number
NatText(n) ==
    LET text[m \in 0..n] ==
            IF m < 10 THEN Char(Digits, m + 1) ELSE text[m \div 10] \o Char(Digits, (m % 10) + 1)
    IN  text[n]

\* str(v) of None, text, a number and the surplus list (a datetime is not
\* stringified on any path the model's rows take: the time columns test
\* isinstance(_, datetime) first)
PyStr(v) ==
    CASE v.kind = "none" -> "None"
      [] v.kind = "str"  -> v.s
      [] v.kind = "list" -> v.s
      [] v.kind = "num"  ->
            LET mag == IF v.n < 0 THEN 0 - v.n ELSE v.n
                txt == IF mag % 10 = 0 THEN NatText(mag \div 10)
                       ELSE NatText(mag \div 10) \o "." \o NatText(mag % 10)
            IN  IF v.n < 0 THEN "-" \o txt ELSE txt

\* int(x) of a number: truncation towards zero
IntOfNum(v) == IF v.n >= 0 THEN v.n \div 10 ELSE 0 - ((0 - v.n) \div 10)

(***************************************************************************)
(* Rows: a row is the sequence of its (key, value) pairs in column order;  *)
(* the raw keys of a row are distinct.                                     *)
(***************************************************************************)
Cell(k, v) == [key |-> k, val |-> v]

\* keys = { _norm(k): k for k in row.keys() }: from each normalised name to the
\* raw key of the last column that has it
Keys(row) ==
    [a \in {_norm(row[j].key) : j \in 1..Len(row)} |->
        row[CHOOSE j \in 1..Len(row) :
                /\ _norm(row[j].key) = a
                /\ \A m \in (j + 1)..Len(row) : _norm(row[m].key) # a].key]

\* keys.get(alias): None (NoneKey) without the alias
KeysGet(keys, alias) == IF alias \in DOMAIN keys THEN keys[alias] ELSE NoneKey

\* row.get(k): None without the key; row.get(None) finds the surplus cells
RowGet(row, k) ==
    LET hits == {j \in 1..Len(row) : row[j].key = k}
    IN  IF hits = {} THEN PyNone ELSE row[CHOOSE j \in hits : TRUE].val

\* row.get(keys.get(alias))
Lookup(row, keys, alias) == RowGet(row, KeysGet(keys, alias))

(***************************************************************************)
(* The row parsers.  The body of each `for row in rows` loop is an         *)
(* operator from the row to its outcome: "city" and "empty" are the two    *)
(* `continue`s, "range" the `continue` of an interval with end <= start,   *)
(* "raise" an exception raised inside the `try`, "put"/"append" the row's  *)
(* contribution.                                                           *)
(***************************************************************************)

\* the tolerant timestamp parsing shared by both parsers and all three columns
ParseTime(raw) ==
    IF raw.kind = "dt" THEN [ok |-> TRUE, dt |-> Instant(raw.n, raw.tz)]
    ELSE LET s0 == Replace(PyStr(raw), "Z", "+00:00")
             s1 == IF ~Contains(s0, "T") /\ Contains(s0, " ") THEN Replace(s0, " ", "T") ELSE s0
         IN  fromisoformat(s1)

NoInstant == Instant(0, FALSE)

DemandOutcome(kind, dt, demand) == [kind |-> kind, dt |-> dt, demand |-> demand]

\* city_val of parse_demand_rows
DemandCityVal(row, keys) ==
    Strip(PyStr(Or(Or(Lookup(row, keys, "city_code"), Lookup(row, keys, "city")), Str(""))))

DemandRawTs(row, keys) ==
    Or(Or(Or(Lookup(row, keys, "slot_started_local_at"), Lookup(row, keys, "timestamp")),
          Lookup(row, keys, "time")),
       Lookup(row, keys, "datetime"))

DemandRaw(row, keys) ==
    Or(Or(Or(Lookup(row, keys, "final_order_forecast"), Lookup(row, keys, "available_capacity")),
          Lookup(row, keys, "demand")),
       Whole(0))

\* int(demand_raw) or int(float(str(demand_raw).strip() or '0'))
DemandInt(demand_raw) ==
    IF demand_raw.kind = "num" THEN [ok |-> TRUE, n |-> IntOfNum(demand_raw)]
    ELSE LET txt == Strip(PyStr(demand_raw))
         IN  IntOfFloatText(IF txt = "" THEN "0" ELSE txt)

\* a filter that spares every row without a city value
DemandCityFilteredDeclared(target, city_val) == city_val # "" /\ city_val # target

\* if city and city_val != city: continue
DemandCityFiltered(target, city_val) == target # "" /\ city_val # target

\* one iteration of the loop of parse_demand_rows; target is the trimmed city
DemandRow(row, target) ==
    LET keys   == Keys(row)
        raw_ts == DemandRawTs(row, keys)
        parsed == ParseTime(raw_ts)
        demand == DemandInt(DemandRaw(row, keys))
    IN  IF DemandCityFiltered(target, DemandCityVal(row, keys)) THEN DemandOutcome("city", NoInstant, 0)
        ELSE IF raw_ts.kind = "none" \/ raw_ts = Str("") THEN DemandOutcome("empty", NoInstant, 0)
        ELSE IF ~parsed.ok THEN DemandOutcome("raise", NoInstant, 0)
        ELSE IF ~demand.ok THEN DemandOutcome("raise", NoInstant, 0)
        ELSE DemandOutcome("put", parsed.dt, demand.n)

Rider(id, start, end) == [rider_id |-> id, start |-> start, end |-> end]

NoRider == Rider("", NoInstant, NoInstant)

RiderOutcome(kind, rider) == [kind |-> kind, rider |-> rider]

\* row_city of parse_riders_rows
RiderCityVal(row, keys) ==
    Strip(PyStr(Or(Or(Lookup(row, keys, "ciudad"), Lookup(row, keys, "city")), Str(""))))

RiderId(row, keys) ==
    Strip(PyStr(Or(Or(Or(Lookup(row, keys, "rider id"), Lookup(row, keys, "rider_id")),
                      Lookup(row, keys, "id")),
                   Str(""))))

RiderStartRaw(row, keys) ==
    Or(Or(Lookup(row, keys, "available from"), Lookup(row, keys, "start")),
       Lookup(row, keys, "start_time"))

RiderEndRaw(row, keys) ==
    Or(Or(Lookup(row, keys, "available to"), Lookup(row, keys, "end")),
       Lookup(row, keys, "end_time"))

\* if city and row_city != city: continue
RiderCityFiltered(target, row_city) == target # "" /\ row_city # target

\* one iteration of the loop of parse_riders_rows; target is the trimmed city
RiderRow(row, target) ==
    LET keys      == Keys(row)
        start_raw == RiderStartRaw(row, keys)
        end_raw   == RiderEndRaw(row, keys)
        s         == ParseTime(start_raw)
        e         == ParseTime(end_raw)
    IN  IF RiderCityFiltered(target, RiderCityVal(row, keys)) THEN RiderOutcome("city", NoRider)
        ELSE IF ~Truthy(start_raw) \/ ~Truthy(end_raw) THEN RiderOutcome("empty", NoRider)
        ELSE IF ~s.ok \/ ~e.ok THEN RiderOutcome("raise", NoRider)
        ELSE IF ~Comparable(e.dt, s.dt) THEN RiderOutcome("raise", NoRider)
        ELSE IF e.dt.t <= s.dt.t THEN RiderOutcome("range", NoRider)
        ELSE RiderOutcome("append", Rider(RiderId(row, keys), s.dt, e.dt))

\* an overlap test on closed intervals
overlapClosed(a_start, a_end, b_start, b_end) == a_start.t <= b_end.t /\ b_start.t <= a_end.t

\* overlap(a_start, a_end, b_start, b_end) on instants that can be ordered
overlap(a_start, a_end, b_start, b_end) == a_start.t < b_end.t /\ b_start.t < a_end.t

\* demand_map.setdefault(dt, demand): the first write stays
MapPutFirst(dm, k, v) == [x \in (DOMAIN dm) \cup {k} |-> IF x \in DOMAIN dm THEN dm[x] ELSE v]

\* demand_map[dt] = demand
MapPut(dm, k, v) == [x \in (DOMAIN dm) \cup {k} |-> IF x = k THEN v ELSE dm[x]]

\* a lookup that never finds its key
MapGetMiss(dm, k, default) == default

\* demand_map.get(k, default)
MapGet(dm, k, default) == IF k \in DOMAIN dm THEN dm[k] ELSE default

EmptyMap == [x \in {} |-> 0]

\* a loop body without the `except`: the exception leaves the parser
DemandExceptNone(kind) == kind

\* `except Exception: continue` of parse_demand_rows: what an iteration that
\* ended as kind does next
DemandExcept(kind) == IF kind = "raise" THEN "continue" ELSE kind

\* `except Exception: continue` of parse_riders_rows
RiderExcept(kind) == IF kind = "raise" THEN "continue" ELSE kind

\* while cur < end
DaterangeCondStrict(c, end) == c.t < end.t

\* while cur <= end
DaterangeCond(c, end) == c.t <= end.t

Min(a, b) == IF a <= b THEN a ELSE b

Max(a, b) == IF a >= b THEN a ELSE b

\* sum(1 for r in riders if overlap(r['start'], r['end'], t0, t1))
RECURSIVE Available(_, _, _)
Available(rs, t0, t1) ==
    IF Len(rs) = 0 THEN 0
    ELSE (IF overlap(Head(rs).start, Head(rs).end, t0, t1) THEN 1 ELSE 0) + Available(Tail(rs), t0, t1)

\* a point whose unmet is the bare difference
CoveragePointUnclamped(t0, demand, available) ==
    [time      |-> t0,
     demand    |-> demand,
     available |-> available,
     staffed   |-> IF demand <= available THEN demand ELSE available,
     unmet     |-> demand - available,
     surplus   |-> IF available >= demand THEN available - demand ELSE 0]

\* the point appended for a bucket; 'time' holds the instant that
\* t0.isoformat() renders
CoveragePoint(t0, demand, available) ==
    [time      |-> t0,
     demand    |-> demand,
     available |-> available,
     staffed   |-> Min(demand, available),
     unmet     |-> Max(demand - available, 0),
     surplus   |-> Max(available - demand, 0)]

(***************************************************************************)
(* Bounds and the inputs the runs draw from.                               *)
(***************************************************************************)
\* rows of a table handed to a parser called on its own
MaxRows == 3

\* rows of the demand and of the riders table of a request
MaxReqDemandRows == 2

MaxReqRiderRows == 2

\* instants after which a timeline that is still growing is left alone
MaxTimeline == 6

\* interval_minutes: int = Form(30)
DefaultInterval == 30

SeqsUpTo(S, n) == UNION {[1..k -> S] : k \in 0..n}

D_Mad5 ==
    <<Cell("city", Str("MAD")), Cell("timestamp", Str("2024-01-01T10:00")), Cell("demand", Str("5"))>>

D_Bcn4 ==
    <<Cell("city", Str("BCN")), Cell("timestamp", Str("2024-01-01T10:00")), Cell("demand", Str("4"))>>

D_NoCity7 ==
    <<Cell("timestamp", Str("2024-01-01 10:00")), Cell("demand", Str("7"))>>

D_EmptyCode ==
    <<Cell("city_code", Str("")), Cell(" City ", Str(" MAD ")),
      Cell("Timestamp", Str("2024-01-01T10:30")), Cell("Demand", Str("2.7"))>>

D_ZeroForecast ==
    <<Cell("city_code", Str("MAD")), Cell("slot_started_local_at", Dt(630, FALSE)),
      Cell("final_order_forecast", Whole(0)), Cell("demand", Whole(7))>>

D_BadTs ==
    <<Cell("city", Str("MAD")), Cell("timestamp", Str("10 o'clock")), Cell("demand", Str("3"))>>

D_BadDemand ==
    <<Cell("city", Str("MAD")), Cell("timestamp", Str("2024-01-01T10:00")), Cell("demand", Str("many"))>>

D_EmptyTs ==
    <<Cell("city", Str("MAD")), Cell("timestamp", Str("")), Cell("demand", Str("9"))>>

D_Negative ==
    <<Cell("city", Str("MAD")), Cell("timestamp", Str("2024-01-01T10:00")), Cell("demand", Str("-3"))>>

D_Utc6 ==
    <<Cell("city", Str("MAD")), Cell("time", Str("2024-01-01T10:00Z")), Cell("demand", Whole(6))>>

\* a csv row with one cell more than the header has columns
D_Surplus ==
    <<Cell("timestamp", Str("2024-01-01T10:30")), Cell(NoneKey, RestList("['x']"))>>

D_NoDemand ==
    <<Cell("city", Str("MAD")), Cell("datetime", Str("2024-01-01T10:30"))>>

DemandRows ==
    {D_Mad5, D_Bcn4, D_NoCity7, D_EmptyCode, D_ZeroForecast, D_BadTs, D_BadDemand, D_EmptyTs,
     D_Negative, D_Utc6, D_Surplus, D_NoDemand}

\* the rows of one file share its header
D_Mad2Late ==
    <<Cell("city", Str("MAD")), Cell("timestamp", Str("2024-01-01 10:30")), Cell("demand", Str("2"))>>

ReqDemandRows == {D_Mad5, D_Negative, D_Mad2Late}

R_1 ==
    <<Cell("id", Whole(1)), Cell("city", Str("MAD")),
      Cell("start", Str("2024-01-01T09:45")), Cell("end", Str("2024-01-01T10:20"))>>

R_2 ==
    <<Cell("id", Whole(2)), Cell("city", Str("MAD")),
      Cell("start", Str("2024-01-01T10:05")), Cell("end", Str("2024-01-01T10:40"))>>

\* rider 1 again, a second shift, with native date/time cells
R_1b ==
    <<Cell("id", Whole(1)), Cell("city", Str("MAD")),
      Cell("start", Dt(600, FALSE)), Cell("end", Dt(630, FALSE))>>

R_3 ==
    <<Cell("id", Whole(3)), Cell("city", Str("MAD")),
      Cell("start", Str("2024-01-01 10:29")), Cell("end", Str("2024-01-01 11:00"))>>

R_4 ==
    <<Cell("id", Whole(4)), Cell("city", Str("MAD")),
      Cell("start", Str("2024-01-01 10:30")), Cell("end", Str("2024-01-01 10:31"))>>

R_Utc ==
    <<Cell("id", Whole(11)), Cell("city", Str("MAD")),
      Cell("start", Str("2024-01-01T10:00Z")), Cell("end", Str("2024-01-01T11:00Z"))>>

ReqRiderRows == {R_1, R_2, R_1b, R_3, R_4, R_Utc}

R_Preferred ==
    <<Cell("CIUDAD", Str(" MAD")), Cell("RIDER ID", Str(" 12 ")),
      Cell("Available from", Str("2024-01-01 10:00")), Cell("Available to", Str("2024-01-01 10:30"))>>

R_NoCity ==
    <<Cell("rider_id", Str("13")),
      Cell("start_time", Str("2024-01-01T10:00")), Cell("end_time", Str("2024-01-01T10:45"))>>

R_Bcn ==
    <<Cell("city", Str("BCN")), Cell("id", Str("5")),
      Cell("start", Str("2024-01-01T10:00")), Cell("end", Str("2024-01-01T11:00"))>>

R_EmptyCiudad ==
    <<Cell("ciudad", Str("")), Cell("city", Str("BCN")), Cell("id", Str("6")),
      Cell("available from", Str("")), Cell("start", Str("2024-01-01T10:00")),
      Cell("end", Str("2024-01-01T11:00"))>>

R_ZeroLength ==
    <<Cell("city", Str("MAD")), Cell("id", Str("7")),
      Cell("start", Str("2024-01-01T10:30")), Cell("end", Str("2024-01-01T10:30"))>>

R_BadStart ==
    <<Cell("city", Str("MAD")), Cell("id", Str("8")),
      Cell("start", Str("half past ten")), Cell("end", Str("2024-01-01T11:00"))>>

R_NoEnd ==
    <<Cell("city", Str("MAD")), Cell("id", Str("9")),
      Cell("start", Str("2024-01-01T10:00")), Cell("end", Str(""))>>

\* an aware start and a naive end: end_dt <= start_dt raises TypeError
R_MixedZone ==
    <<Cell("city", Str("MAD")), Cell("id", Str("10")),
      Cell("start", Str("2024-01-01T10:00Z")), Cell("end", Str("2024-01-01T11:00"))>>

RiderRows ==
    {R_1, R_1b, R_Utc, R_Preferred, R_NoCity, R_Bcn, R_EmptyCiudad, R_ZeroLength, R_BadStart,
     R_NoEnd, R_MixedZone}

\* the city argument of a parser called on its own
Cities == {"", "MAD", " MAD "}

ReqCities == {"MAD"}

StartDates == {"2024-01-01 10:00"}

EndDates ==
    {"2024-01-01T10:30", "2024-01-01 11:00", "2024-01-01 10:00", "2024-01-01T10:30Z", "tomorrow"}

Intervals == {0 - DefaultInterval, 0, 15, DefaultInterval}

\* DemandRow and RiderRow over the rows and the trimmed cities of the model,
\* evaluated once
TrimmedCities == {Strip(c) : c \in Cities \cup ReqCities}

DemandRowOf == [row \in DemandRows \cup ReqDemandRows, c \in TrimmedCities |-> DemandRow(row, c)]

RiderRowOf == [row \in RiderRows \cup ReqRiderRows, c \in TrimmedCities |-> RiderRow(row, c)]

NoSummary ==
    [interval_minutes |-> 0, points |-> 0, total_unmet |-> 0, total_surplus |-> 0,
     city |-> "", start |-> NoInstant, end |-> NoInstant]

InitLocals ==
    /\ exc = ""
    /\ idx = 1
    /\ d_log = <<>>
    /\ r_log = <<>>
    /\ demand_map = EmptyMap
    /\ riders = <<>>
    /\ start_dt = NoInstant
    /\ end_dt = NoInstant
    /\ cur = NoInstant
    /\ times = <<>>
    /\ i = 1
    /\ series = <<>>
    /\ total_unmet = 0
    /\ total_surplus = 0
    /\ summary = NoSummary

\* a request reaches optimize
InitOptimize ==
    /\ entry = "optimize"
    /\ pc = "optimize"
    /\ city \in ReqCities
    /\ start_date \in StartDates
    /\ end_date \in EndDates
    /\ interval_minutes \in Intervals
    /\ d_rows = <<>>
    /\ r_rows = <<>>
    /\ InitLocals

\* parse_demand_rows(rows, city) called on its own
InitParseDemand ==
    /\ entry = "parse_demand_rows"
    /\ pc = "parse_demand"
    /\ city \in Cities
    /\ start_date = ""
    /\ end_date = ""
    /\ interval_minutes = DefaultInterval
    /\ d_rows \in SeqsUpTo(DemandRows, MaxRows)
    /\ r_rows = <<>>
    /\ InitLocals

\* parse_riders_rows(rows, city) called on its own
InitParseRiders ==
    /\ entry = "parse_riders_rows"
    /\ pc = "parse_riders"
    /\ city \in Cities
    /\ start_date = ""
    /\ end_date = ""
    /\ interval_minutes = DefaultInterval
    /\ d_rows = <<>>
    /\ r_rows \in SeqsUpTo(RiderRows, MaxRows)
    /\ InitLocals

Init == InitOptimize \/ InitParseDemand \/ InitParseRiders

(***************************************************************************)
(* optimize, first part: the two dates are parsed and compared.            *)
(***************************************************************************)
\* datetime.fromisoformat(x.replace('Z', '+00:00').replace(' ', 'T'))
ParseFormDate(x) == fromisoformat(Replace(Replace(x, "Z", "+00:00"), " ", "T"))

ParseDates ==
    /\ pc = "optimize"
    /\ LET s == ParseFormDate(start_date)
           e == ParseFormDate(end_date)
       IN  IF ~s.ok \/ ~e.ok
           THEN /\ pc' = "rejected"
                /\ exc' = "400 Invalid date format. Use 'YYYY-MM-DD HH:MM'."
                /\ UNCHANGED <<start_dt, end_dt>>
           ELSE IF ~Comparable(e.dt, s.dt)
           THEN /\ pc' = "error"
                /\ exc' = "TypeError"
                /\ start_dt' = s.dt
                /\ end_dt' = e.dt
           ELSE IF e.dt.t <= s.dt.t
           THEN /\ pc' = "rejected"
                /\ exc' = "400 end_date must be after start_date"
                /\ start_dt' = s.dt
                /\ end_dt' = e.dt
           ELSE /\ pc' = "read"
                /\ exc' = exc
                /\ start_dt' = s.dt
                /\ end_dt' = e.dt
    /\ UNCHANGED <<entry, city, start_date, end_date, interval_minutes, d_rows, r_rows, idx, d_log,
                   r_log, demand_map, riders, cur, times, i, series, total_unmet, total_surplus,
                   summary>>

(***************************************************************************)
(* optimize reads the two files into rows (the decoding of the files is    *)
(* not modelled: the rows are what the request brings).                    *)
(***************************************************************************)
ReadRows ==
    /\ pc = "read"
    /\ d_rows' \in SeqsUpTo(ReqDemandRows, MaxReqDemandRows)
    /\ r_rows' \in SeqsUpTo(ReqRiderRows, MaxReqRiderRows)
    /\ pc' = "parse_demand"
    /\ UNCHANGED <<entry, exc, city, start_date, end_date, interval_minutes, idx, d_log, r_log,
                   demand_map, riders, start_dt, end_dt, cur, times, i, series, total_unmet,
                   total_surplus, summary>>

(***************************************************************************)
(* parse_demand_rows: one iteration of its loop, and its return.           *)
(***************************************************************************)
DemandRowStep ==
    /\ pc = "parse_demand"
    /\ idx <= Len(d_rows)
    /\ LET o    == DemandRowOf[d_rows[idx], Strip(city)]
           next == DemandExcept(o.kind)
       IN  /\ d_log' = Append(d_log, o)
           /\ IF next = "raise"
              THEN /\ pc' = "error"
                   /\ exc' = "Exception in parse_demand_rows"
                   /\ UNCHANGED <<idx, demand_map>>
              ELSE /\ pc' = pc
                   /\ exc' = exc
                   /\ idx' = idx + 1
                   /\ demand_map' = IF next = "put" THEN MapPut(demand_map, o.dt, o.demand)
                                    ELSE demand_map
    /\ UNCHANGED <<entry, city, start_date, end_date, interval_minutes, d_rows, r_rows, r_log,
                   riders, start_dt, end_dt, cur, times, i, series, total_unmet, total_surplus,
                   summary>>

DemandReturn ==
    /\ pc = "parse_demand"
    /\ idx > Len(d_rows)
    /\ pc' = IF entry = "optimize" THEN "parse_riders" ELSE "returned"
    /\ idx' = 1
    /\ UNCHANGED <<entry, exc, city, start_date, end_date, interval_minutes, d_rows, r_rows, d_log,
                   r_log, demand_map, riders, start_dt, end_dt, cur, times, i, series,
                   total_unmet, total_surplus, summary>>

(***************************************************************************)
(* parse_riders_rows: one iteration of its loop, and its return; in        *)
(* optimize daterange is called next.                                      *)
(***************************************************************************)
RiderRowStep ==
    /\ pc = "parse_riders"
    /\ idx <= Len(r_rows)
    /\ LET o    == RiderRowOf[r_rows[idx], Strip(city)]
           next == RiderExcept(o.kind)
       IN  /\ r_log' = Append(r_log, o)
           /\ IF next = "raise"
              THEN /\ pc' = "error"
                   /\ exc' = "Exception in parse_riders_rows"
                   /\ UNCHANGED <<idx, riders>>
              ELSE /\ pc' = pc
                   /\ exc' = exc
                   /\ idx' = idx + 1
                   /\ riders' = IF next = "append" THEN Append(riders, o.rider) ELSE riders
    /\ UNCHANGED <<entry, city, start_date, end_date, interval_minutes, d_rows, r_rows, d_log,
                   demand_map, start_dt, end_dt, cur, times, i, series, total_unmet,
                   total_surplus, summary>>

RiderReturn ==
    /\ pc = "parse_riders"
    /\ idx > Len(r_rows)
    /\ pc' = IF entry = "optimize" THEN "daterange" ELSE "returned"
    /\ idx' = 1
    /\ cur' = IF entry = "optimize" THEN start_dt ELSE cur
    /\ UNCHANGED <<entry, exc, city, start_date, end_date, interval_minutes, d_rows, r_rows, d_log,
                   r_log, demand_map, riders, start_dt, end_dt, times, i, series, total_unmet,
                   total_surplus, summary>>

(***************************************************************************)
(* daterange: one iteration of `while cur <= end`, and its return.  A      *)
(* timeline of MaxTimeline instants that is still growing is not followed  *)
(* further.                                                                *)
(***************************************************************************)
DaterangeStep ==
    /\ pc = "daterange"
    /\ DaterangeCond(cur, end_dt)
    /\ Len(times) < MaxTimeline
    /\ times' = Append(times, cur)
    /\ cur' = PlusMinutes(cur, interval_minutes)
    /\ UNCHANGED <<entry, pc, exc, city, start_date, end_date, interval_minutes, d_rows, r_rows,
                   idx, d_log, r_log, demand_map, riders, start_dt, end_dt, i, series,
                   total_unmet, total_surplus, summary>>

DaterangeReturn ==
    /\ pc = "daterange"
    /\ ~DaterangeCond(cur, end_dt)
    /\ pc' = "coverage"
    /\ i' = 1
    /\ UNCHANGED <<entry, exc, city, start_date, end_date, interval_minutes, d_rows, r_rows, idx,
                   d_log, r_log, demand_map, riders, start_dt, end_dt, cur, times, series,
                   total_unmet, total_surplus, summary>>

(***************************************************************************)
(* optimize, the loop over the buckets and the return of the report.       *)
(* overlap orders a rider's bounds against t0 and t1: a rider whose bounds *)
(* are aware while the request's are naive (or the reverse) raises         *)
(* TypeError out of optimize.                                              *)
(***************************************************************************)
CoverageStep ==
    /\ pc = "coverage"
    /\ i <= Len(times)
    /\ LET t0        == times[i]
           t1        == PlusMinutes(times[i], interval_minutes)
           demand    == MapGet(demand_map, t0, 0)
           available == Available(riders, t0, t1)
           point     == CoveragePoint(t0, demand, available)
       IN  IF \E k \in 1..Len(riders) : ~Comparable(riders[k].start, t1)
           THEN /\ pc' = "error"
                /\ exc' = "TypeError"
                /\ UNCHANGED <<i, series, total_unmet, total_surplus>>
           ELSE /\ pc' = pc
                /\ exc' = exc
                /\ i' = i + 1
                /\ total_unmet' = total_unmet + point.unmet
                /\ total_surplus' = total_surplus + point.surplus
                /\ series' = Append(series, point)
    /\ UNCHANGED <<entry, city, start_date, end_date, interval_minutes, d_rows, r_rows, idx, d_log,
                   r_log, demand_map, riders, start_dt, end_dt, cur, times, summary>>

Return ==
    /\ pc = "coverage"
    /\ i > Len(times)
    /\ summary' = [interval_minutes |-> interval_minutes,
                   points           |-> Len(series),
                   total_unmet      |-> total_unmet,
                   total_surplus    |-> total_surplus,
                   city             |-> city,
                   start            |-> start_dt,
                   end              |-> end_dt]
    /\ pc' = "done"
    /\ UNCHANGED <<entry, exc, city, start_date, end_date, interval_minutes, d_rows, r_rows, idx,
                   d_log, r_log, demand_map, riders, start_dt, end_dt, cur, times, i, series,
                   total_unmet, total_surplus>>

Next ==
    \/ ParseDates
    \/ ReadRows
    \/ DemandRowStep
    \/ DemandReturn
    \/ RiderRowStep
    \/ RiderReturn
    \/ DaterangeStep
    \/ DaterangeReturn
    \/ CoverageStep
    \/ Return

Spec == Init /\ [][Next]_vars

(***************************************************************************)
(* Properties.                                                             *)
(***************************************************************************)
\* C1: a request whose step is zero or negative, with end after start, is
\* rejected: no timeline instant is ever generated for it and no report is
\* returned.
C1_NonPositiveStepRejected ==
    (entry = "optimize" /\ interval_minutes <= 0 /\ Comparable(start_dt, end_dt)
        /\ end_dt.t > start_dt.t)
        => (times = <<>> /\ pc # "done")

Scenario ==
    /\ entry = "optimize"
    /\ city = "MAD"
    /\ start_date = "2024-01-01 10:00"
    /\ end_date = "2024-01-01T10:30"
    /\ interval_minutes = 30
    /\ d_rows = <<D_Mad5>>
    /\ r_rows = <<R_1, R_2>>

ScenarioFirstPoint ==
    [time |-> Instant(600, FALSE), demand |-> 5, available |-> 2, staffed |-> 2, unmet |-> 3,
     surplus |-> 0]

ScenarioSecondPoint ==
    [time |-> Instant(630, FALSE), demand |-> 0, available |-> 1, staffed |-> 0, unmet |-> 0,
     surplus |-> 1]

\* C2, as claimed: the end-to-end scenario returns a single bucket at 10:00
\* (available 2, demand 5, staffed 2, unmet 3, surplus 0), so points = 1,
\* total_unmet = 3 and total_surplus = 0.
C2_ScenarioSingleBucket ==
    (Scenario /\ pc = "done")
        => /\ series = <<ScenarioFirstPoint>>
           /\ summary.points = 1
           /\ summary.total_unmet = 3
           /\ summary.total_surplus = 0

\* C2, amended: the end-to-end scenario returns two buckets, the one at 10:00
\* (available 2, demand 5, staffed 2, unmet 3, surplus 0) and one at 10:30
\* (available 1, demand 0, staffed 0, unmet 0, surplus 1), so points = 2,
\* total_unmet = 3 and total_surplus = 1.
C2_ScenarioTwoBuckets ==
    (Scenario /\ pc = "done")
        => /\ series = <<ScenarioFirstPoint, ScenarioSecondPoint>>
           /\ summary.points = 2
           /\ summary.total_unmet = 3
           /\ summary.total_surplus = 1

C2_ScenarioReturned == Scenario /\ pc = "done"

\* city_val / row_city of every row of the model
DemandCityValOf == [row \in DemandRows \cup ReqDemandRows |-> DemandCityVal(row, Keys(row))]

RiderCityValOf == [row \in RiderRows \cup ReqRiderRows |-> RiderCityVal(row, Keys(row))]

FirstAlias(row, aliases) ==
    LET present == {a \in 1..Len(aliases) : aliases[a] \in DOMAIN Keys(row)}
    IN  IF present = {} THEN PyNone
        ELSE Lookup(row, Keys(row), aliases[CHOOSE a \in present : \A b \in present : a <= b])

FirstDemandOf ==
    [row \in DemandRows \cup ReqDemandRows |->
        FirstAlias(row, <<"final_order_forecast", "available_capacity", "demand">>)]

FirstStartOf ==
    [row \in RiderRows \cup ReqRiderRows |->
        FirstAlias(row, <<"available from", "start", "start_time">>)]

\* C4: the value a field takes is the one under the first alias present among
\* the row's keys, whatever that value is: a demand row that enters the index
\* enters with the number under its first demand alias, and a rider row whose
\* first start alias holds an empty text is skipped for its missing bound.
C4_FirstPresentAliasUsed ==
    /\ \A j \in 1..Len(d_log) :
          (d_log[j].kind = "put" /\ FirstDemandOf[d_rows[j]].kind # "none"
                /\ DemandInt(FirstDemandOf[d_rows[j]]).ok)
              => d_log[j].demand = DemandInt(FirstDemandOf[d_rows[j]]).n
    /\ \A j \in 1..Len(r_log) :
          (r_log[j].kind = "append") => FirstStartOf[r_rows[j]] # Str("")

\* C5: the available count of every point is the number of intervals with
\* start < t1 and t0 < end, where t0 is the point's instant and t1 = t0 + step,
\* each interval counted once whoever its rider is.
C5_AvailableIsOverlapCount ==
    \A j \in 1..Len(series) :
        series[j].available =
            Cardinality({k \in 1..Len(riders) :
                            /\ riders[k].start.t < times[j].t + interval_minutes
                            /\ times[j].t < riders[k].end.t})

\* a bucket that one interval only touches (it ends at t0) and another enters
\* by a single minute
C5_BoundaryBucket ==
    \E j \in 1..Len(series) : \E k, m \in 1..Len(riders) :
        /\ riders[k].end = times[j]
        /\ riders[m].end.t = times[j].t + 1
        /\ series[j].available = 1

\* C6: every point has staffed = min(demand, available),
\* unmet = max(demand - available, 0), surplus = max(available - demand, 0)
\* and unmet * surplus = 0.
C6_PointArithmetic ==
    \A j \in 1..Len(series) :
        LET p == series[j]
        IN  /\ p.staffed <= p.demand /\ p.staffed <= p.available
            /\ p.staffed \in {p.demand, p.available}
            /\ p.unmet = (IF p.demand > p.available THEN p.demand - p.available ELSE 0)
            /\ p.surplus = (IF p.available > p.demand THEN p.available - p.demand ELSE 0)
            /\ p.unmet * p.surplus = 0

C6_ShortAndOverstaffed ==
    /\ \E j \in 1..Len(series) : series[j].unmet > 0
    /\ \E j \in 1..Len(series) : series[j].surplus > 0 /\ series[j].demand < 0

\* C7: a returned report has one point per timeline instant
\* (summary.points = len(series) = len(timeline)); the first instant is start,
\* consecutive instants are step_minutes apart, every instant is <= end and the
\* instant after the last one would exceed end.
C7_TimelineShape ==
    (pc = "done")
        => /\ interval_minutes > 0
           /\ summary.points = Len(series)
           /\ Len(series) = Len(times)
           /\ \A j \in 1..Len(series) : series[j].time = times[j]
           /\ Len(times) >= 1
           /\ times[1] = start_dt
           /\ \A j \in 1..(Len(times) - 1) : times[j + 1] = PlusMinutes(times[j], interval_minutes)
           /\ \A j \in 1..Len(times) : times[j].t <= end_dt.t
           /\ times[Len(times)].t + interval_minutes > end_dt.t

\* a report whose last bucket starts at the requested end and so reaches beyond it
C7_LastBucketBeyondEnd ==
    /\ pc = "done"
    /\ Len(times) >= 3
    /\ times[Len(times)] = end_dt

\* C8: the Demand Index is a function of the timestamp and the last write
\* wins: its keys are the timestamps of the rows that passed the city filter
\* and parsed, and each key holds the count of the last such row.
C8_LastWriteWins ==
    LET puts == {j \in 1..Len(d_log) : d_log[j].kind = "put"}
    IN  /\ DOMAIN demand_map = {d_log[j].dt : j \in puts}
        /\ \A j \in puts :
              (\A m \in puts : d_log[m].dt = d_log[j].dt => m <= j)
                  => demand_map[d_log[j].dt] = d_log[j].demand

C8_TimestampWrittenTwice ==
    /\ pc = "returned"
    /\ \E j, m \in 1..Len(d_log) :
          /\ j < m
          /\ d_log[j].kind = "put" /\ d_log[m].kind = "put"
          /\ d_log[j].dt = d_log[m].dt
          /\ d_log[j].demand # d_log[m].demand

\* a demand row whose timestamp is missing, empty or unparseable or whose
\* demand is not a number
BadDemandRow(row) == DemandRowOf[row, ""].kind \in {"empty", "raise"}

\* a rider row with a missing, empty or unparseable bound, or with end <= start
BadRiderRow(row) == RiderRowOf[row, ""].kind \in {"empty", "raise", "range"}

GoodDemandRow(row) == ~BadDemandRow(row)

GoodRiderRow(row) == ~BadRiderRow(row)

\* the index that parse_demand_rows builds from rows
DemandIndexOf(rows, target) ==
    LET built[k \in 0..Len(rows)] ==
            IF k = 0 THEN EmptyMap
            ELSE LET o == DemandRowOf[rows[k], target]
                 IN  IF o.kind = "put" THEN MapPut(built[k - 1], o.dt, o.demand) ELSE built[k - 1]
    IN  built[Len(rows)]

\* the interval list that parse_riders_rows builds from rows
RiderListOf(rows, target) ==
    LET built[k \in 0..Len(rows)] ==
            IF k = 0 THEN <<>>
            ELSE LET o == RiderRowOf[rows[k], target]
                 IN  IF o.kind = "append" THEN Append(built[k - 1], o.rider) ELSE built[k - 1]
    IN  built[Len(rows)]

\* C9: a bad row (demand: timestamp missing, empty or unparseable, demand not
\* a number; rider: a bound missing, empty or unparseable, or end <= start)
\* never raises out of its parser: the step that meets it leaves the Demand
\* Index and the interval list as they were and moves to the next row, and a
\* parser returns, after its last row, what it builds from the rows with the
\* bad ones taken out.
C9_BadRowsSkipped ==
    [][/\ (pc = "parse_demand" /\ idx <= Len(d_rows) /\ BadDemandRow(d_rows[idx]))
            => (pc' = "parse_demand" /\ idx' = idx + 1 /\ demand_map' = demand_map)
       /\ (pc = "parse_riders" /\ idx <= Len(r_rows) /\ BadRiderRow(r_rows[idx]))
            => (pc' = "parse_riders" /\ idx' = idx + 1 /\ riders' = riders)
       /\ (pc = "parse_demand" /\ pc' # pc)
            => /\ idx > Len(d_rows)
               /\ demand_map = DemandIndexOf(SelectSeq(d_rows, GoodDemandRow), Strip(city))
       /\ (pc = "parse_riders" /\ pc' # pc)
            => /\ idx > Len(r_rows)
               /\ riders = RiderListOf(SelectSeq(r_rows, GoodRiderRow), Strip(city))]_vars

\* a parser that returned after a row raised inside the loop and a later row
\* was kept
C9_KeptAfterBadRow ==
    /\ pc = "returned"
    /\ \E j, m \in 1..Len(d_log) :
          /\ j < m
          /\ d_log[j].kind = "raise"
          /\ d_log[m].kind = "put"

\* C10: every value of the Demand Index is a non-negative integer, and so is
\* the demand of every point of a report.
C10_DemandNonNegative ==
    /\ \A k \in DOMAIN demand_map : demand_map[k] >= 0
    /\ \A j \in 1..Len(series) : series[j].demand >= 0

=============================================================================
